---- MODULE Spec2Model ----
(***************************************************************************)
(* Model of the "memory tree" scene: a two-value toggle (treeState) and    *)
(* the per-frame callbacks of Foliage, Spiral, Ornaments, MemoryItem and   *)
(* Star that move each element between its scatter shape and tree shape.   *)
(*                                                                         *)
(* Numbers.  The code computes with IEEE doubles; the model computes with  *)
(* integers on a grid:                                                     *)
(*   - a progress value p stands for p / Resolution (Resolution = 1.0);    *)
(*   - the frame delta d stands for d clock ticks of 2 / Resolution        *)
(*     seconds, so that 2.0 * delta is 4 * d progress units and            *)
(*     1.5 * delta is 3 * d progress units;                                *)
(*   - a lerp factor 2 * delta is the fraction (4 * d) / Resolution;       *)
(*   - a division that leaves the grid is rounded to the nearest grid      *)
(*     point (RoundDiv), as a double operation is rounded.                 *)
(***************************************************************************)
EXTENDS Integers, Sequences, FiniteSets, TLC

\* ------------------------------------------------------------------ bounds
\* 1.0 on the progress grid; one clock tick is 2 / Resolution seconds.
Resolution == 10
\* Largest frame delta, in clock ticks (0 is a legal delta).
MaxDelta == 3
\* state.clock.elapsedTime is followed up to MaxClock ticks.
MaxClock == 3
\* Stand-ins for the element counts of constants.ts.
ORNAMENT_BOX_COUNT == 2
ORNAMENT_SPHERE_COUNT == 1
MEMORY_COUNT == 3
FOLIAGE_COUNT == 1
SPIRAL_PARTICLE_COUNT == 1
\* MEMORY_IMAGES.length
MemoryImages == 2

Deltas == 0 .. MaxDelta

\* ----------------------------------------------------------------- helpers
Min(a, b) == IF a < b THEN a ELSE b
Max(a, b) == IF a > b THEN a ELSE b
Abs(a) == IF a < 0 THEN -a ELSE a
\* a / b rounded to the nearest integer (b > 0)
RoundDiv(a, b) == (2 * a + b) \div (2 * b)

\* TreeMorphState
TREE_SHAPE == "TREE_SHAPE"
SCATTERED == "SCATTERED"
TreeMorphState == {TREE_SHAPE, SCATTERED}

\* `2.0 * delta` (Foliage, Spiral) and `1.5 * delta` (Ornaments) in progress
\* units per clock tick.
ORNAMENT_SPEED == 3
\* Spiral stepping at the rate of Ornaments
SpiralSpeedOfOrnaments == ORNAMENT_SPEED
\* Foliage stepping at twice the rate of Ornaments
FoliageSpeedDoubled == 2 * ORNAMENT_SPEED
FOLIAGE_SPEED == 4
SPIRAL_SPEED == 4

\* treeState === TreeMorphState.TREE_SHAPE ? 1.0 : 0.0
Target(ts) == IF ts = TREE_SHAPE THEN Resolution ELSE 0

\* StepProgress without the clamps Math.min(.., 1.0) and Math.max(.., 0.0)
StepProgressUnclamped(cur, target, speed) ==
    IF cur < target THEN cur + speed
    ELSE IF cur > target THEN cur - speed
    ELSE cur

\* StepProgress that stops one grid point short of an end point it would pass
StepProgressShort(cur, target, speed) ==
    IF cur < target THEN (IF cur + speed >= Resolution THEN Resolution - 1 ELSE cur + speed)
    ELSE IF cur > target THEN (IF cur - speed <= 0 THEN 1 ELSE cur - speed)
    ELSE cur

\* if (cur < target) cur = Math.min(cur + speed, 1.0)
\* else if (cur > target) cur = Math.max(cur - speed, 0.0)
StepProgress(cur, target, speed) ==
    IF cur < target THEN Min(cur + speed, Resolution)
    ELSE IF cur > target THEN Max(cur - speed, 0)
    ELSE cur

\* Math.sin of an angle in milliradians, in thousandths (Bhaskara's rational
\* approximation on the angle in centiradians, exact at 0, pi/2 and pi;
\* |SinMilli(x)| <= 1000).
SinMilli(x) ==
    LET pi == 314
        r == (x \div 10) % (2 * pi)
        h == IF r > pi THEN r - pi ELSE r
        p == h * (pi - h)
        v == (16000 * p) \div (5 * pi * pi - 4 * p)
    IN IF r > pi THEN -v ELSE v

\* THREE.MathUtils.lerp(x, y, t) = (1 - t) * x + t * y, with t = num / den
MathLerp(x, y, num, den) == RoundDiv((den - num) * x + num * y, den)

\* Positions of ornaments are <<x, y, z>> in hundredths, rotations <<x, y, z>>
\* in milliradians, scales in hundredths.
Vec(x, y, z) == <<x, y, z>>

\* ---------------------------------------------------- generated data
\* Every useMemo(..., []) below runs its generator once, at mount.  The
\* generators call Math.random(); the model draws the outcome of a generator
\* from a short list of outcomes (Seeds), and gives element i of outcome s the
\* values of row (i + s) of a table of values the formulas can produce.
Seeds(generator) == IF generator = "box" THEN {0, 1} ELSE {0}
Row(table, i, s) == table[((i + s) % Len(table)) + 1]

\* Rows of generateData's loop body: tree position on the cone, scatter
\* position in the sphere, random scatter rotation, treeRot = (0, angle, 0),
\* scale and colour.
BoxRows ==
    << [scale |-> 21, color |-> "GOLD_PALE",
        scatterPos |-> Vec(300, 655, -378), scatterRot |-> Vec(785, 1100, 2356),
        treePos |-> Vec(-120, -600, 512), treeRot |-> Vec(0, 1571, 0)],
       [scale |-> 44, color |-> "PINK_LUX",
        scatterPos |-> Vec(-410, -944, 545), scatterRot |-> Vec(2356, 400, 785),
        treePos |-> Vec(330, -440, -471), treeRot |-> Vec(0, 4712, 0)],
       [scale |-> 33, color |-> "RED_VELVET",
        scatterPos |-> Vec(150, 90, 1020), scatterRot |-> Vec(1500, 2800, 310),
        treePos |-> Vec(-405, -580, -77), treeRot |-> Vec(0, 3330, 0)] >>
SphereRows ==
    << [scale |-> 32, color |-> "RED_VELVET",
        scatterPos |-> Vec(512, -200, 700), scatterRot |-> Vec(1571, 300, 2900),
        treePos |-> Vec(250, -162, -355), treeRot |-> Vec(0, 5300, 0)],
       [scale |-> 48, color |-> "PINK_LUX",
        scatterPos |-> Vec(-640, 380, -90), scatterRot |-> Vec(200, 3000, 1200),
        treePos |-> Vec(-380, -591, 209), treeRot |-> Vec(0, 2642, 0)] >>

\* generateData(count, type): the outcomes; data[i + 1] is the element with
\* id = i.
generateData(count, type) ==
    {[i \in 1 .. count |->
        [id |-> i - 1] @@ Row(IF type = "box" THEN BoxRows ELSE SphereRows, i - 1, s)] :
     s \in Seeds(type)}

\* Foliage's useMemo: positions (tree), scatterPositions, randoms
FoliageGeometry ==
    [positions |-> [i \in 1 .. FOLIAGE_COUNT |-> Vec(40 * i, -600 + 100 * i, 25)],
     scatterPositions |-> [i \in 1 .. FOLIAGE_COUNT |-> Vec(-700, 310 * i, 120)],
     randoms |-> [i \in 1 .. FOLIAGE_COUNT |-> (370 * i) % 1000]]

\* Spiral's useMemo: treePositions (helix), scatterPositions, lineProgress
SpiralGeometry ==
    [treePositions |-> [i \in 1 .. SPIRAL_PARTICLE_COUNT |-> Vec(560, -500 + 90 * i, 0)],
     scatterPositions |-> [i \in 1 .. SPIRAL_PARTICLE_COUNT |-> Vec(230, -810, 140 * i)],
     lineProgress |-> [i \in 1 .. SPIRAL_PARTICLE_COUNT |->
                          ((i - 1) * 1000) \div SPIRAL_PARTICLE_COUNT]]

\* MEMORY_IMAGES: the URLs, named by their index
MEMORY_IMAGES == [k \in 0 .. MemoryImages - 1 |-> k]

\* Positions and scales of Star and MemoryItem are on a half-unit grid
\* (2 grid points per scene unit); MemoryItem scales are in tenths.
\* Rows of Memories' useMemo (treePos, scatterPos) and of MemoryItem's own
\* useMemo values (randomOffset in clock ticks, aspect in tenths,
\* initialRotation in milliradians).
MemoryRows ==
    << [treePos |-> Vec(7, -11, 11), scatterPos |-> Vec(21, 39, -23),
        randomOffset |-> 125, aspect |-> 9, initialRotation |-> 120],
       [treePos |-> Vec(-5, 0, -7), scatterPos |-> Vec(-33, -48, 27),
        randomOffset |-> 410, aspect |-> 11, initialRotation |-> -200] >>

\* MemoriesItems with the index clamped to the last URL instead of cycled
MemoriesItemsClamped ==
    {[i \in 1 .. MEMORY_COUNT |->
        [url |-> MEMORY_IMAGES[Min(i - 1, MemoryImages - 1)], index |-> i - 1]
            @@ Row(MemoryRows, i - 1, s)] :
     s \in Seeds("memories")}

\* Memories' useMemo: Array.from({ length: MEMORY_COUNT }).map((_, i) => ...)
MemoriesItems ==
    {[i \in 1 .. MEMORY_COUNT |->
        [url |-> MEMORY_IMAGES[(i - 1) % MemoryImages], index |-> i - 1]
            @@ Row(MemoryRows, i - 1, s)] :
     s \in Seeds("memories")}

\* new THREE.Object3D(): position 0, rotation 0, scale 1, identity matrix
Object3D ==
    [position |-> Vec(0, 0, 0), rotation |-> Vec(0, 0, 0), scale |-> 100,
     matrix |-> [position |-> Vec(0, 0, 0), rotation |-> Vec(0, 0, 0), scale |-> 100]]

\* Object3D.updateMatrix(): matrix.compose(position, quaternion, scale); the
\* matrix is represented by the three values it is composed from.
updateMatrix(obj) ==
    [obj EXCEPT !.matrix = [position |-> obj.position, rotation |-> obj.rotation,
                            scale |-> obj.scale]]

\* easedT = t < 0.5 ? 4 * t * t * t : 1 - Math.pow(-2 * t + 2, 3) / 2,
\* as a numerator over EasedDen
EasedDen == Resolution * Resolution * Resolution
\* EasedT with the division by 2 of the second branch left out
EasedTNoHalf(t) ==
    IF 2 * t < Resolution
    THEN 4 * t * t * t
    ELSE EasedDen - 8 * (Resolution - t) * (Resolution - t) * (Resolution - t)
EasedT(t) ==
    IF 2 * t < Resolution
    THEN 4 * t * t * t
    ELSE EasedDen - 4 * (Resolution - t) * (Resolution - t) * (Resolution - t)

\* lerp of scatterPos to treePos at easedT, component-wise
LerpPos(data, easedT) ==
    [k \in 1 .. 3 |-> MathLerp(data.scatterPos[k], data.treePos[k], easedT, EasedDen)]

\* BoxBody without the test t < 0.9: the floating branch at every progress
BoxBodyAlwaysFloats(obj, data, t, easedT, time) ==
    LET pos == LerpPos(data, easedT)
        timeMilli == RoundDiv(2000 * time, Resolution)
        float == RoundDiv(SinMilli(timeMilli + 1000 * data.id) * (Resolution - t),
                          20 * Resolution)
    IN updateMatrix([obj EXCEPT
           !.position = Vec(pos[1], pos[2] + float, pos[3]),
           !.rotation = Vec(
               data.scatterRot[1] + RoundDiv(400 * time * (Resolution - t),
                                             Resolution * Resolution),
               data.scatterRot[2] + RoundDiv(200 * time * (Resolution - t),
                                             Resolution * Resolution),
               obj.rotation[3]),
           !.scale = data.scale])

\* the body of boxData.forEach, up to updateMatrix
BoxBody(obj, data, t, easedT, time) ==
    LET pos == LerpPos(data, easedT)
        timeMilli == RoundDiv(2000 * time, Resolution)
        moved ==
            IF 10 * t < 9 * Resolution
            THEN \* floatScale = (1 - t) * 0.5
                 LET float == RoundDiv(SinMilli(timeMilli + 1000 * data.id)
                                           * (Resolution - t), 20 * Resolution)
                 IN [obj EXCEPT
                        !.position = Vec(pos[1], pos[2] + float, pos[3]),
                        !.rotation = Vec(
                            data.scatterRot[1] + RoundDiv(400 * time * (Resolution - t),
                                                          Resolution * Resolution),
                            data.scatterRot[2] + RoundDiv(200 * time * (Resolution - t),
                                                          Resolution * Resolution),
                            obj.rotation[3])]
            ELSE [obj EXCEPT
                        !.position = pos,
                        !.rotation = Vec(
                            MathLerp(data.scatterRot[1], data.treeRot[1], easedT, EasedDen)
                                + RoundDiv(200 * time, Resolution),
                            MathLerp(data.scatterRot[2], data.treeRot[2], easedT, EasedDen)
                                + RoundDiv(200 * time, Resolution),
                            MathLerp(data.scatterRot[3], data.treeRot[3], easedT, EasedDen))]
    IN updateMatrix([moved EXCEPT !.scale = data.scale])

\* SphereBody that sets rotation.x and rotation.y only
SphereBodyKeepsZ(obj, data, t, easedT, time) ==
    updateMatrix([obj EXCEPT
        !.position = LerpPos(data, easedT),
        !.rotation = Vec(data.scatterRot[1] + RoundDiv(1000 * time, Resolution),
                         data.scatterRot[2] + RoundDiv(1000 * time, Resolution),
                         obj.rotation[3]),
        !.scale = data.scale])

\* the body of sphereData.forEach, up to updateMatrix
SphereBody(obj, data, t, easedT, time) ==
    updateMatrix([obj EXCEPT
        !.position = LerpPos(data, easedT),
        !.rotation = Vec(data.scatterRot[1] + RoundDiv(1000 * time, Resolution),
                         data.scatterRot[2] + RoundDiv(1000 * time, Resolution),
                         0),
        !.scale = data.scale])

\* Array.forEach over boxData / sphereData with the shared tempObject: the
\* result is the object after the last element and the matrices written by
\* setMatrixAt, starting from the mesh's current instance matrices.
RECURSIVE BoxLoop(_, _, _, _, _, _, _)
BoxLoop(i, obj, mats, data, t, easedT, time) ==
    IF i > Len(data) THEN [obj |-> obj, mats |-> mats]
    ELSE LET o == BoxBody(obj, data[i], t, easedT, time)
         IN BoxLoop(i + 1, o, [mats EXCEPT ![i] = o.matrix], data, t, easedT, time)

RECURSIVE SphereLoop(_, _, _, _, _, _, _)
SphereLoop(i, obj, mats, data, t, easedT, time) ==
    IF i > Len(data) THEN [obj |-> obj, mats |-> mats]
    ELSE LET o == SphereBody(obj, data[i], t, easedT, time)
         IN SphereLoop(i + 1, o, [mats EXCEPT ![i] = o.matrix], data, t, easedT, time)

\* --------------------------------------------------------------- Star
\* Stand-in for TREE_HEIGHT of constants.ts, in scene units.
TREE_HEIGHT == 12

\* treeY = TREE_HEIGHT / 2 + 0.5, scatterY = TREE_HEIGHT + 8, on the half-unit
\* grid
treeY == TREE_HEIGHT + 1
scatterY == 2 * TREE_HEIGHT + 16

\* Vector3.lerp(v, alpha): this.x += (v.x - this.x) * alpha, alpha = num / den
VecLerp(cur, v, num, den) ==
    [k \in 1 .. 3 |-> cur[k] + RoundDiv((v[k] - cur[k]) * num, den)]

\* A MemoryItem as mounted: the <Image> mesh at the origin with scale 1 and an
\* opaque material, not hovered.
MemoryItemMounted ==
    [ref |-> TRUE, position |-> Vec(0, 0, 0), scale |-> Vec(10, 10, 10),
     opacity |-> 1000, hovered |-> FALSE]

VARIABLES
    treeState,      \* App state handed to every component as a prop
    elapsedTime,    \* state.clock.elapsedTime, in clock ticks
    foliage,        \* Foliage refs and uniforms
    spiral,         \* Spiral refs and uniforms
    tempObject,     \* the module-level THREE.Object3D of Ornaments
    ornaments,      \* Ornaments refs and the instance matrices of its meshes
    star,           \* Star refs and groupRef.current.position.y
    boundary,       \* ImageErrorBoundary's state
    memories,       \* the mounted MemoryItems (<<>> while none is mounted)
    foliageGeometry,\* Foliage's useMemo result
    spiralGeometry, \* Spiral's useMemo result
    boxData,        \* useMemo(() => generateData(ORNAMENT_BOX_COUNT, 'box'))
    sphereData,     \* useMemo(() => generateData(ORNAMENT_SPHERE_COUNT, 'sphere'))
    items           \* Memories' useMemo result, with each MemoryItem's own

generated == <<foliageGeometry, spiralGeometry, boxData, sphereData, items>>
vars == <<treeState, elapsedTime, foliage, spiral, tempObject, ornaments, star,
          boundary, memories, generated>>

\* Foliage.useFrame
FoliageFrame(d, time) ==
    IF foliage.shaderRef
    THEN LET tp == Target(treeState)
             cp == StepProgress(foliage.currentProgress, tp, FOLIAGE_SPEED * d)
         IN /\ foliage' = [foliage EXCEPT !.uTime = time,
                                          !.targetProgress = tp,
                                          !.currentProgress = cp,
                                          !.uProgress = cp]
            /\ UNCHANGED foliageGeometry
    ELSE UNCHANGED <<foliage, foliageGeometry>>

\* Spiral.useFrame
SpiralFrame(d, time) ==
    IF spiral.shaderRef
    THEN LET cp == StepProgress(spiral.currentProgress, Target(treeState),
                                SPIRAL_SPEED * d)
         IN /\ spiral' = [spiral EXCEPT !.uTime = time,
                                        !.currentProgress = cp,
                                        !.uProgress = cp]
            /\ UNCHANGED spiralGeometry
    ELSE UNCHANGED <<spiral, spiralGeometry>>

\* Ornaments.useFrame
OrnamentsFrame(d, time) ==
    \* const t = progressRef.current, bound once as in the code
    \E t \in {StepProgress(ornaments.progressRef, Target(treeState), ORNAMENT_SPEED * d)} :
    \E boxes \in {IF ornaments.boxMeshRef
                  THEN BoxLoop(1, tempObject, ornaments.boxMatrix, boxData, t, EasedT(t), time)
                  ELSE [obj |-> tempObject, mats |-> ornaments.boxMatrix]} :
    \E spheres \in {IF ornaments.sphereMeshRef
                    THEN SphereLoop(1, boxes.obj, ornaments.sphereMatrix, sphereData,
                                    t, EasedT(t), time)
                    ELSE [obj |-> boxes.obj, mats |-> ornaments.sphereMatrix]} :
       /\ ornaments' = [ornaments EXCEPT !.progressRef = t,
                                         !.boxMatrix = boxes.mats,
                                         !.sphereMatrix = spheres.mats]
       /\ tempObject' = spheres.obj
       /\ UNCHANGED <<boxData, sphereData>>

\* StarHeight as a linear step: the height moves by the fraction 2.0 * delta
\* of the whole distance between treeY and scatterY, clamped at the target
StarHeightLinear(y, ts, d, time) ==
    LET targetY == IF ts = TREE_SHAPE THEN treeY ELSE scatterY
        step == RoundDiv(Abs(scatterY - treeY) * 4 * d, Resolution)
    IN IF y < targetY THEN Min(y + step, targetY)
       ELSE IF y > targetY THEN Max(y - step, targetY)
       ELSE y

\* Star.useFrame, part 1 (position) and the bobbing of part 2.  The rest of
\* the idle animation (ring and spike rotations, core and emission pulse)
\* writes to objects nothing else reads and is left out.
StarHeight(y, ts, d, time) ==
    LET targetY == IF ts = TREE_SHAPE THEN treeY ELSE scatterY
        \* THREE.MathUtils.lerp(position.y, targetY, delta * 2)
        damped == MathLerp(y, targetY, 4 * d, Resolution)
        \* Math.sin(t * 1.5) * 0.005
        bob == RoundDiv(2 * 5 * SinMilli(RoundDiv(3000 * time, Resolution)), 1000000)
    IN damped + bob

StarFrame(d, time) ==
    IF ~star.groupRef \/ ~star.ringRef \/ ~star.coreRef \/ ~star.spikesRef
    THEN UNCHANGED star
    ELSE star' = [star EXCEPT !.positionY = StarHeight(star.positionY, treeState, d, time)]

\* MemoryItem.useFrame for one item: 1. position, 2. floating, 3. scale,
\* 4. opacity.  The orientation (lookAt, slerp, rotateZ) is read by nothing
\* else and is left out.
MemoryItemFrame(m, item, ts, d, time) ==
    IF ~m.ref THEN m
    ELSE LET isScattered == ts = SCATTERED
             targetPos == IF isScattered THEN item.scatterPos ELSE item.treePos
             moved == VecLerp(m.position, targetPos, 4 * d, Resolution)
             \* t = state.clock.elapsedTime + randomOffset, in milliradians
             t == RoundDiv(2000 * (time + item.randomOffset), Resolution)
             float == IF isScattered
                      THEN RoundDiv(2 * 10 * SinMilli(t \div 2), 1000000)
                      ELSE RoundDiv(2 * 5 * SinMilli(t), 1000000)
             baseScale == IF isScattered THEN 45 ELSE 25
             \* baseScale * hoverScale, hoverScale = hovered ? 1.2 : 1.0
             finalScale == IF m.hovered THEN RoundDiv(baseScale * 12, 10) ELSE baseScale
             goal == Vec(finalScale, RoundDiv(finalScale * item.aspect, 10), 10)
         IN [m EXCEPT !.position = Vec(moved[1], moved[2] + float, moved[3]),
                      !.scale = VecLerp(m.scale, goal, 4 * d, Resolution),
                      !.opacity = MathLerp(m.opacity, 1000, 4 * d, Resolution)]

\* MemoriesFrame with the lerp applied to targetPos, the Vector3 of the item
\* itself, instead of to ref.current.position
MemoriesFrameLerpsTarget(d, time) ==
    LET aimed(i) == IF treeState = SCATTERED THEN items[i].scatterPos ELSE items[i].treePos
        pulled(i) == VecLerp(aimed(i), memories[i].position, 4 * d, Resolution)
    IN /\ memories' = memories
       /\ items' = [i \in DOMAIN items |->
                       IF i \notin DOMAIN memories THEN items[i]
                       ELSE IF treeState = SCATTERED
                            THEN [items[i] EXCEPT !.scatterPos = pulled(i)]
                            ELSE [items[i] EXCEPT !.treePos = pulled(i)]]

\* every mounted MemoryItem's useFrame
MemoriesFrame(d, time) ==
    /\ memories' = [i \in DOMAIN memories |->
                       MemoryItemFrame(memories[i], items[i], treeState, d, time)]
    /\ UNCHANGED items

\* One rendered frame: the clock advances by delta and every subscribed
\* useFrame callback runs with the same (state, delta).  Frames are followed
\* until the clock reaches MaxClock.
Frame(d) ==
    LET time == elapsedTime + d IN
    /\ time <= MaxClock
    /\ elapsedTime' = time
    /\ FoliageFrame(d, time)
    /\ SpiralFrame(d, time)
    /\ OrnamentsFrame(d, time)
    /\ MemoriesFrame(d, time)
    /\ StarFrame(d, time)
    /\ UNCHANGED <<treeState, boundary>>

\* The same frame, seen by the three components that keep a progress value.
\* Their callbacks read treeState, delta and the clock and write foliage,
\* spiral, ornaments and tempObject only, and no other callback writes
\* those: Star's and MemoryItem's effects are left to Frame, and the clock is
\* wrapped at MaxClock so that frames never stop arriving.
ProgressFrame(d) ==
    LET time == (elapsedTime + d) % (MaxClock + 1) IN
    /\ elapsedTime' = time
    /\ FoliageFrame(d, time)
    /\ SpiralFrame(d, time)
    /\ OrnamentsFrame(d, time)
    /\ UNCHANGED <<treeState, boundary, star, memories, items>>

\* App's onToggle
onToggle ==
    treeState' = IF treeState = TREE_SHAPE THEN SCATTERED ELSE TREE_SHAPE

\* A click that invokes onToggle twice
ClickInvokesTwice == UNCHANGED vars

\* Overlay: <button onClick={onToggle}>
Click ==
    /\ onToggle
    /\ UNCHANGED <<elapsedTime, foliage, spiral, tempObject, ornaments, star,
                    boundary, memories, generated>>

\* render that returns the children whatever the state
renderChildrenAlways(state) == "children"

\* ImageErrorBoundary.render
render(state) == IF state.hasError THEN "null" ELSE "children"

\* <Suspense fallback={null}>: the images have loaded and Memories' items
\* mount, when the boundary renders its children.
ImagesLoaded ==
    /\ memories = <<>>
    /\ render(boundary) = "children"
    /\ memories' = [i \in 1 .. MEMORY_COUNT |-> MemoryItemMounted]
    /\ UNCHANGED <<treeState, elapsedTime, foliage, spiral, tempObject, ornaments,
                    star, boundary, generated>>

\* static getDerivedStateFromError() { return { hasError: true }; }
getDerivedStateFromError == [hasError |-> TRUE]

\* An <Image> under Memories throws while rendering (its texture failed to
\* load): the boundary takes the derived state and renders again.
ImageError ==
    /\ render(boundary) = "children"
    /\ boundary' = getDerivedStateFromError
    /\ memories' = IF render(boundary') = "null" THEN <<>> ELSE memories
    /\ UNCHANGED <<treeState, elapsedTime, foliage, spiral, tempObject, ornaments,
                    star, generated>>

\* onPointerOver={(e) => { e.stopPropagation(); setHovered(true); }}: the
\* pointer is over one photo at a time.
onPointerOver(i) ==
    /\ i \in DOMAIN memories
    /\ \A j \in DOMAIN memories : ~memories[j].hovered
    /\ memories' = [memories EXCEPT ![i].hovered = TRUE]
    /\ UNCHANGED <<treeState, elapsedTime, foliage, spiral, tempObject, ornaments,
                    star, boundary, generated>>

\* onPointerOut={(e) => setHovered(false)}
onPointerOut(i) ==
    /\ i \in DOMAIN memories
    /\ memories[i].hovered
    /\ memories' = [memories EXCEPT ![i].hovered = FALSE]
    /\ UNCHANGED <<treeState, elapsedTime, foliage, spiral, tempObject, ornaments,
                    star, boundary, generated>>

Init ==
    /\ treeState \in TreeMorphState
    /\ elapsedTime = 0
    /\ foliage = [shaderRef |-> TRUE, targetProgress |-> 0, currentProgress |-> 0,
                  uTime |-> 0, uProgress |-> 0]
    /\ spiral = [shaderRef |-> TRUE, currentProgress |-> 0, uTime |-> 0, uProgress |-> 0]
    /\ tempObject = Object3D
    /\ ornaments = [boxMeshRef |-> TRUE, sphereMeshRef |-> TRUE, progressRef |-> 0,
                    boxMatrix |-> [i \in 1 .. ORNAMENT_BOX_COUNT |-> Object3D.matrix],
                    sphereMatrix |-> [i \in 1 .. ORNAMENT_SPHERE_COUNT |-> Object3D.matrix]]
    /\ star = [groupRef |-> TRUE, ringRef |-> TRUE, coreRef |-> TRUE, spikesRef |-> TRUE,
               positionY |-> treeY]
    /\ boundary = [hasError |-> FALSE]
    /\ memories = <<>>
    /\ foliageGeometry = FoliageGeometry
    /\ spiralGeometry = SpiralGeometry
    /\ boxData \in generateData(ORNAMENT_BOX_COUNT, "box")
    /\ sphereData \in generateData(ORNAMENT_SPHERE_COUNT, "sphere")
    /\ items \in MemoriesItems

Next ==
    \/ Click
    \/ \E d \in Deltas : Frame(d)
    \/ ImagesLoaded
    \/ ImageError
    \/ \E i \in 1 .. MEMORY_COUNT : onPointerOver(i)
    \/ \E i \in 1 .. MEMORY_COUNT : onPointerOut(i)

\* The whole scene, for the first MaxClock ticks of the clock.
Spec == Init /\ [][Next]_vars

ProgressNext ==
    \/ Click
    \/ \E d \in Deltas : ProgressFrame(d)
    \/ ImageError

\* The components that keep a progress value, for any number of frames.
ProgressSpec == Init /\ [][ProgressNext]_vars

\* Frames keep arriving with a positive delta.
LiveSpec ==
    ProgressSpec /\ WF_vars(\E d \in Deltas \ {0} : ProgressFrame(d))

\* ------------------------------------------------------------------ claims
\* The three progress values, and the delta of a ProgressSpec step.
Progresses ==
    <<foliage.currentProgress, foliage.uProgress, spiral.currentProgress,
      spiral.uProgress, ornaments.progressRef>>
AllAt(p) == \A k \in DOMAIN Progresses : Progresses[k] = p
StepDelta == (elapsedTime' - elapsedTime) % (MaxClock + 1)

\* C1: while the toggle is held at one value and frames with a positive delta
\* keep arriving, the progress of Foliage, Spiral and Ornaments becomes exactly
\* the target (1 for TREE_SHAPE, 0 for SCATTERED), and once there it stays
\* there on every step that leaves the toggle alone.
C1_ProgressSettles ==
    /\ \A v \in TreeMorphState : <>[](treeState = v) => <>[]AllAt(Target(v))
    /\ [][(AllAt(Target(treeState)) /\ treeState' = treeState)
            => AllAt(Target(treeState))']_vars

C1_Witness ==
    /\ treeState = SCATTERED
    /\ AllAt(0)
    /\ foliage.targetProgress = 0
    /\ ornaments.boxMatrix[1].position = boxData[1].scatterPos

\* C2 as stated: the progress values of Foliage, Spiral and Ornaments are
\* equal on every frame.
C2_AllSynchronized ==
    /\ foliage.currentProgress = spiral.currentProgress
    /\ spiral.currentProgress = ornaments.progressRef

\* C2 as amended: the progress values of Foliage and Spiral, and the uProgress
\* uniforms they hand to their shaders, are equal on every frame.
C2_FoliageSpiralSynchronized ==
    /\ foliage.currentProgress = spiral.currentProgress
    /\ foliage.uProgress = spiral.uProgress

C2_Witness ==
    /\ treeState = SCATTERED
    /\ foliage.currentProgress = spiral.currentProgress
    /\ foliage.currentProgress \in 1 .. Resolution - 1
    /\ ornaments.progressRef # foliage.currentProgress

\* C8: every progress value is within [0, 1] in every reachable state.
C8_ProgressInUnitInterval ==
    \A k \in DOMAIN Progresses : Progresses[k] \in 0 .. Resolution

C8_Witness ==
    /\ foliage.currentProgress = Resolution
    /\ spiral.uProgress = Resolution
    /\ ornaments.progressRef \in 1 .. Resolution - 1
    /\ treeState = TREE_SHAPE

\* C9: on every step the progress of Foliage and of Spiral changes by at most
\* 2.0 * delta and the progress of Ornaments by at most 1.5 * delta, never
\* away from the current target; a toggle changes no progress value.
MovesToward(old, new, target, most) ==
    /\ Abs(new - old) <= most
    /\ (new - old) * (target - old) >= 0
    /\ Abs(target - new) <= Abs(target - old)
C9_ProgressNeverJumps ==
    [][/\ MovesToward(foliage.currentProgress, foliage.currentProgress',
                      Target(treeState), 4 * StepDelta)
       /\ MovesToward(spiral.currentProgress, spiral.currentProgress',
                      Target(treeState), 4 * StepDelta)
       /\ MovesToward(ornaments.progressRef, ornaments.progressRef',
                      Target(treeState), 3 * StepDelta)
       /\ (treeState' # treeState => Progresses' = Progresses)]_vars

C9_Witness ==
    /\ treeState = TREE_SHAPE
    /\ foliage.currentProgress = Resolution - 4
    /\ ornaments.progressRef = Resolution - 3

\* The delta of a Spec step (0 on a step that is not a frame), the target of
\* the Star and of MemoryItem i, and the two rules of movement.
FrameDelta == elapsedTime' - elapsedTime
StarTarget == IF treeState = TREE_SHAPE THEN treeY ELSE scatterY
MemoryTarget(i) == IF treeState = SCATTERED THEN items[i].scatterPos ELSE items[i].treePos
LinearToward(old, new, target, step) ==
    /\ MovesToward(old, new, target, step)
    /\ new = target \/ Abs(new - old) = step
DampedToward(old, new, target, d) ==
    new = old + RoundDiv((target - old) * 4 * d, Resolution)
StillMounted == DOMAIN memories \cap DOMAIN memories'

C4_ImageErrorContained ==
    /\ [](boundary.hasError => memories = <<>> /\ render(boundary) = "null")
    /\ [][boundary.hasError => boundary'.hasError]_vars
    /\ [][boundary' # boundary =>
            UNCHANGED <<treeState, elapsedTime, foliage, spiral, tempObject,
                        ornaments, star, generated>>]_vars
    /\ [][(boundary.hasError /\ FrameDelta > 0) =>
            /\ LinearToward(foliage.currentProgress, foliage.currentProgress',
                            Target(treeState), 4 * FrameDelta)
            /\ LinearToward(spiral.currentProgress, spiral.currentProgress',
                            Target(treeState), 4 * FrameDelta)
            /\ LinearToward(ornaments.progressRef, ornaments.progressRef',
                            Target(treeState), 3 * FrameDelta)
            /\ Abs(StarTarget - star.positionY) > 1 => star.positionY' # star.positionY]_vars

C4_Witness ==
    /\ boundary.hasError
    /\ memories = <<>>
    /\ treeState = TREE_SHAPE
    /\ star.positionY \in treeY + 1 .. scatterY - 1
    /\ foliage.currentProgress \in 1 .. Resolution - 1

\* C5: treeState is always one of the two values; a click is always possible
\* and takes the toggle to the other value, so that two clicks restore it; a
\* step that changes the toggle changes nothing else, and a step that changes
\* anything else (a frame, a hover, an image load or error) leaves the toggle.
OtherState(v) == IF v = TREE_SHAPE THEN SCATTERED ELSE TREE_SHAPE
C5_TwoValueToggle ==
    /\ [](treeState \in TreeMorphState)
    /\ [](ENABLED (Click /\ treeState' = OtherState(treeState)))
    /\ [](OtherState(OtherState(treeState)) = treeState /\ OtherState(treeState) # treeState)
    /\ [][treeState' # treeState =>
            /\ treeState' = OtherState(treeState)
            /\ UNCHANGED <<elapsedTime, foliage, spiral, tempObject, ornaments, star,
                           boundary, memories, generated>>]_vars

C5_Witness ==
    /\ treeState = SCATTERED
    /\ foliage.targetProgress = Resolution
    /\ foliage.currentProgress > 0
    /\ \E i \in DOMAIN memories : memories[i].hovered

\* C6: the generated point sets and attributes of Foliage, Spiral, Ornaments
\* and Memories are an outcome of their generators, and no step changes them.
C6_GeneratedDataUnchanged ==
    /\ [](/\ foliageGeometry = FoliageGeometry
          /\ spiralGeometry = SpiralGeometry
          /\ boxData \in generateData(ORNAMENT_BOX_COUNT, "box")
          /\ sphereData \in generateData(ORNAMENT_SPHERE_COUNT, "sphere")
          /\ items \in MemoriesItems)
    /\ [][UNCHANGED generated]_vars

C6_Witness ==
    /\ elapsedTime > 0
    /\ treeState = TREE_SHAPE
    /\ foliage.currentProgress > 0
    /\ memories # <<>>
    /\ memories[1].position # Vec(0, 0, 0)
    /\ memories[1].position # items[1].treePos
    /\ star.positionY > treeY

NeverPast(old, new, target) ==
    /\ (target - new) * (target - old) >= 0
    /\ Abs(target - new) <= Abs(target - old)
C10_DampingNeverOvershoots ==
    [][/\ NeverPast(star.positionY, star.positionY', StarTarget)
       /\ \A i \in StillMounted : \A k \in 1 .. 3 :
             NeverPast(memories[i].position[k], memories'[i].position[k],
                       MemoryTarget(i)[k])]_vars

\* C11: the easing maps every progress value of [0, 1] into [0, 1], is
\* non-decreasing and fixes the end points; and a frame that leaves the
\* progress of Ornaments at 1 writes every box and every sphere at its
\* treePos, a frame that leaves it at 0 writes every sphere at its scatterPos.
C11_EasingFixesEndPoints ==
    /\ [](\A t \in 0 .. Resolution :
            /\ EasedT(t) \in 0 .. EasedDen
            /\ \A u \in t .. Resolution : EasedT(t) <= EasedT(u))
    /\ [](EasedT(0) = 0 /\ EasedT(Resolution) = EasedDen)
    /\ [][ornaments' # ornaments =>
            /\ ornaments'.progressRef = Resolution =>
                  /\ \A i \in DOMAIN boxData :
                        ornaments'.boxMatrix[i].position = boxData[i].treePos
                  /\ \A i \in DOMAIN sphereData :
                        ornaments'.sphereMatrix[i].position = sphereData[i].treePos
            /\ ornaments'.progressRef = 0 =>
                  \A i \in DOMAIN sphereData :
                     ornaments'.sphereMatrix[i].position = sphereData[i].scatterPos]_vars

C11_Witness ==
    /\ treeState = TREE_SHAPE
    /\ ornaments.progressRef = Resolution
    /\ \A i \in DOMAIN boxData : ornaments.boxMatrix[i].position = boxData[i].treePos
    /\ \A i \in DOMAIN sphereData :
          /\ ornaments.sphereMatrix[i].position = sphereData[i].treePos
          /\ sphereData[i].treePos # sphereData[i].scatterPos

\* The blend of a box's scatter and tree values at the eased progress t, and
\* the vertical offset of the position a frame wrote for box i from it.
BoxBlend(i, field, t) ==
    [k \in 1 .. 3 |-> MathLerp(boxData[i]["scatter" \o field][k],
                               boxData[i]["tree" \o field][k], EasedT(t), EasedDen)]
BoxOffset(i) ==
    ornaments.boxMatrix[i].position[2] - BoxBlend(i, "Pos", ornaments.progressRef)[2]

\* C12: in every frame, for every box, x and z are the blend at the eased
\* progress; while t < 0.9 the vertical offset from the blend is at most
\* (1 - t) * 0.5 (to half a grid point) and rotation.x / rotation.y are
\* scatterRot plus time * 0.2 * (1 - t) / time * 0.1 * (1 - t); for t >= 0.9
\* there is no offset and the rotation is the blend of scatterRot and treeRot,
\* with time * 0.1 added to x and y.
C12_BoxFloatOnlyBelowThreshold ==
    [][ornaments' # ornaments =>
        \A i \in DOMAIN boxData :
           LET t == ornaments'.progressRef
               time == elapsedTime'
               written == ornaments'.boxMatrix[i]
               rot == BoxBlend(i, "Rot", t)
           IN /\ written.position[1] = BoxBlend(i, "Pos", t)[1]
              /\ written.position[3] = BoxBlend(i, "Pos", t)[3]
              /\ IF 10 * t < 9 * Resolution
                 THEN /\ 2 * Resolution * Abs(BoxOffset(i)')
                            <= 100 * (Resolution - t) + Resolution
                      /\ written.rotation[1] = boxData[i].scatterRot[1]
                            + RoundDiv(400 * time * (Resolution - t), Resolution * Resolution)
                      /\ written.rotation[2] = boxData[i].scatterRot[2]
                            + RoundDiv(200 * time * (Resolution - t), Resolution * Resolution)
                 ELSE /\ BoxOffset(i)' = 0
                      /\ written.rotation
                            = Vec(rot[1] + RoundDiv(200 * time, Resolution),
                                  rot[2] + RoundDiv(200 * time, Resolution),
                                  rot[3])]_vars

C12_Witness ==
    /\ ornaments.progressRef \in 1 .. Resolution - 1
    /\ 10 * ornaments.progressRef < 9 * Resolution
    /\ elapsedTime > 0
    /\ \E i \in DOMAIN boxData : BoxOffset(i) # 0

\* How many items use the URL u.
UsesOf(u) == Cardinality({i \in DOMAIN items : items[i].url = u})
Urls == {MEMORY_IMAGES[k] : k \in DOMAIN MEMORY_IMAGES}

\* C13: there are exactly MEMORY_COUNT items (and, once mounted, as many
\* photos); the item of index i uses MEMORY_IMAGES[i mod MEMORY_IMAGES.length],
\* so the first item uses the first URL and each next item the next URL of the
\* list, starting over after the last; every item's URL is one of the list,
\* and any two URLs of the list are used a number of times that differs by at
\* most one.
C13_UrlsCycled ==
    /\ Len(items) = MEMORY_COUNT
    /\ memories # <<>> => Len(memories) = MEMORY_COUNT
    /\ \A i \in DOMAIN items :
          /\ items[i].index = i - 1
          /\ items[i].url = MEMORY_IMAGES[items[i].index % MemoryImages]
          /\ items[i].url \in Urls
    /\ items[1].url = MEMORY_IMAGES[0]
    /\ \A i \in DOMAIN items \ {1} :
          \E k \in DOMAIN MEMORY_IMAGES :
             /\ items[i - 1].url = MEMORY_IMAGES[k]
             /\ items[i].url = MEMORY_IMAGES[IF k = MemoryImages - 1 THEN 0 ELSE k + 1]
    /\ \A u, v \in Urls : UsesOf(u) - UsesOf(v) \in -1 .. 1

\* The photos are mounted and the list has been cycled: the last item uses a
\* URL that an earlier item uses too.
C13_Witness ==
    /\ Len(memories) = MEMORY_COUNT
    /\ MEMORY_COUNT > MemoryImages
    /\ \E i \in DOMAIN items : i < MEMORY_COUNT /\ items[i].url = items[MEMORY_COUNT].url
    /\ \E u, v \in Urls : UsesOf(u) = UsesOf(v) + 1
====
